---- MODULE Spec2Model ----
(***************************************************************************)
(* Garmin "wrapped": the cleaning pipeline of main.py (export JSON ->      *)
(* wide table -> tidied table -> CSV) and the analysis pipeline of         *)
(* exploration.py (CSV -> filtered table -> stats bundle + charts).        *)
(*                                                                         *)
(* A table is [cols, index, rows]: the ordered column names, the row       *)
(* labels, and one function column -> cell per row.  A cell is a record    *)
(* [t, s, n, d]: t is the kind of value, s a string payload, n/d a         *)
(* rational (or, for timestamps, day number and millisecond of the day).   *)
(***************************************************************************)
EXTENDS Integers, Sequences, FiniteSets, TLC

VARIABLES pc, entry, sourcePath, outputPath, raw, records, df, input,
          csv, stats, figs, attempted, err, reported

vars == <<pc, entry, sourcePath, outputPath, raw, records, df, input,
          csv, stats, figs, attempted, err, reported>>

(***************************************************************************)
(* Bounds of the model.                                                    *)
(***************************************************************************)
\* items of a top-level list, and records under the wrapper key
MaxItems == 2
\* activity records of an export
MaxRecords == 2
\* rows of a table handed to tidy_dataframe
MaxRows == 11
\* rows of a table handed to compute_stats
MaxStatRows == 2

(***************************************************************************)
(* Cells.                                                                  *)
(***************************************************************************)
Cell(t, s, n, d) == [t |-> t, s |-> s, n |-> n, d |-> d]

\* float NaN: what pandas puts where a record has no such key
NaN == Cell("NaN", "", 0, 1)
\* Python None: a JSON null kept in an object column
None == Cell("None", "", 0, 1)
\* pandas NaT / NA
NaT == Cell("NaT", "", 0, 1)
NA == Cell("NA", "", 0, 1)
Bool(b) == Cell("bool", IF b THEN "True" ELSE "False", 0, 1)
Str(s) == Cell("str", s, 0, 1)
\* a dict or list value: unhashable
Nested == Cell("nested", "{...}", 0, 1)

IsNull(v) == v.t \in {"NaN", "None", "NaT", "NA"}

Abs(x) == IF x < 0 THEN -x ELSE x

RECURSIVE Gcd(_, _)
Gcd(a, b) == IF b = 0 THEN a ELSE Gcd(b, a % b)

\* the rational n/d, d # 0, in lowest terms with a positive denominator
Num(n, d) ==
    LET g == Gcd(Abs(n), Abs(d))
        sgn == IF d < 0 THEN -1 ELSE 1
    IN Cell("num", "", sgn * (n \div g), sgn * (d \div g))

\* a/b * c/d, cross-reduced before multiplying
RatMul(x, y) ==
    LET g1 == Gcd(Abs(x.n), y.d)
        g2 == Gcd(Abs(y.n), x.d)
    IN Num((x.n \div g1) * (y.n \div g2), (x.d \div g2) * (y.d \div g1))

RatDiv(x, y) == RatMul(x, Num(y.d, y.n))

RatAdd(x, y) ==
    LET g == Gcd(x.d, y.d)
    IN Num(x.n * (y.d \div g) + y.n * (x.d \div g), (x.d \div g) * y.d)

RatLess(x, y) ==
    LET g == Gcd(x.d, y.d)
    IN x.n * (y.d \div g) < y.n * (x.d \div g)

(***************************************************************************)
(* Parsed JSON.  A node is a list (items), a mapping (fields, and under    *)
(* the wrapper key 'summarizedActivitiesExport' the list wrapped), or a    *)
(* scalar.                                                                 *)
(***************************************************************************)
NoFields == [k \in {} |-> NaN]

Node(kind, hasKey, wrapped, items, fields) ==
    [kind |-> kind, hasKey |-> hasKey, wrapped |-> wrapped, items |-> items,
     fields |-> fields]

ListNode(items) == Node("list", FALSE, <<>>, items, NoFields)
\* a mapping holding the wrapper key
WrapperNode(wrapped) == Node("dict", TRUE, wrapped, <<>>, NoFields)
\* an activity record: a mapping without the wrapper key
ActivityNode(fields) == Node("dict", FALSE, <<>>, <<>>, fields)
ScalarNode(kind) == Node(kind, FALSE, <<>>, <<>>, NoFields)

NoError == [stage |-> "", exc |-> ""]
Error(stage, exc) == [stage |-> stage, exc |-> exc]

\* main.py read_activity_records: the records returned, or the error raised
read_activity_records_mut(content) ==
    IF content.kind = "list"
    THEN IF Len(content.items) > 0 /\ content.items[1].kind = "dict"
            /\ content.items[1].hasKey
         THEN [ret |-> content.items[1].wrapped, err |-> NoError]
         ELSE [ret |-> content.items, err |-> NoError]
    ELSE IF content.kind = "dict"
         THEN [ret |-> content.wrapped, err |-> NoError]
         ELSE [ret |-> <<>>, err |-> Error("read_activity_records", "ValueError")]

read_activity_records(content) ==
    IF content.kind = "list"
    THEN IF Len(content.items) > 0 /\ content.items[1].kind = "dict"
            /\ content.items[1].hasKey
         THEN [ret |-> content.items[1].wrapped, err |-> NoError]
         ELSE [ret |-> content.items, err |-> NoError]
    ELSE IF content.kind = "dict" /\ content.hasKey
         THEN [ret |-> content.wrapped, err |-> NoError]
         ELSE [ret |-> <<>>, err |-> Error("read_activity_records", "ValueError")]

(***************************************************************************)
(* Tables.                                                                 *)
(***************************************************************************)
Range(seq) == {seq[i] : i \in 1..Len(seq)}

Table(cols, index, rows) == [cols |-> cols, index |-> index, rows |-> rows]

ColSet(t) == Range(t.cols)
HasCol(t, c) == c \in ColSet(t)
NRows(t) == Len(t.rows)
Column(t, c) == [i \in 1..NRows(t) |-> t.rows[i][c]]

\* df[c] = ...: overwrite the column in place, or append it as the last one
SetCol(t, c, F(_)) ==
    Table(IF HasCol(t, c) THEN t.cols ELSE Append(t.cols, c),
          t.index,
          [i \in 1..NRows(t) |->
              [k \in ColSet(t) \cup {c} |->
                  IF k = c THEN F(t.rows[i]) ELSE t.rows[i][k]]])

\* df.drop(columns=..., errors="ignore")
DropCols(t, drop) ==
    Table(SelectSeq(t.cols, LAMBDA c : c \notin drop),
          t.index,
          [i \in 1..NRows(t) |-> [k \in ColSet(t) \ drop |-> t.rows[i][k]]])

\* boolean indexing: the rows whose position is in keep, labels kept
RECURSIVE Positions(_, _, _)
Positions(n, i, keep) ==
    IF i > n THEN <<>>
    ELSE (IF i \in keep THEN <<i>> ELSE <<>>) \o Positions(n, i + 1, keep)

SelectRows(t, keep) ==
    LET pos == Positions(NRows(t), 1, keep)
    IN Table(t.cols,
             [j \in 1..Len(pos) |-> t.index[pos[j]]],
             [j \in 1..Len(pos) |-> t.rows[pos[j]]])

(***************************************************************************)
(* pd.DataFrame(records): the columns are the keys in order of first       *)
(* appearance (a record lists its keys in KeyOrder), a key a record lacks  *)
(* is NaN, and a null beside numbers becomes NaN.                          *)
(***************************************************************************)
KeyOrder ==
    <<"activityId", "name", "activityType", "sportType", "parent",
      "startTimeGmt", "startTimeLocal", "beginTimestamp", "duration",
      "elapsedDuration", "movingDuration", "distance", "avgSpeed", "calories",
      "avgHr", "maxHr", "hrTimeInZone_1", "hrTimeInZone_2", "splits",
      "summarizedExerciseSets", "summarizedDiveInfo", "uuidMsb", "uuidLsb",
      "rule">>

RECURSIVE FirstSeen(_, _, _)
FirstSeen(recs, i, seen) ==
    IF i > Len(recs) THEN seen
    ELSE FirstSeen(recs, i + 1,
            seen \o SelectSeq(KeyOrder,
                       LAMBDA k : k \in DOMAIN recs[i].fields /\ k \notin Range(seen)))

IsNumeric(v) == v.t \in {"num", "epoch"}

DataFrame(recs) ==
    LET cols == FirstSeen(recs, 1, <<>>)
        cell(i, c) == IF c \in DOMAIN recs[i].fields THEN recs[i].fields[c] ELSE NaN
        numeric(c) == \E i \in 1..Len(recs) : IsNumeric(cell(i, c))
    IN Table(cols,
             [i \in 1..Len(recs) |-> i - 1],
             [i \in 1..Len(recs) |->
                 [c \in Range(cols) |->
                     IF numeric(c) /\ IsNull(cell(i, c)) THEN NaN ELSE cell(i, c)]])

(***************************************************************************)
(* main.py build_clean_dataframe.                                          *)
(***************************************************************************)
\* a millisecond epoch too wide for the checker's integers is kept as
\* (day number since 1970-01-01, millisecond of that day)
MsPerDay == 86400000
EpochMs(day, ms) == Cell("epoch", "", day, ms)
Ts(day, ms) == Cell("ts", "", day, ms)

\* _ms_to_datetime: pd.to_datetime(unit="ms", errors="coerce") of one value
ms_to_datetime(v) ==
    IF v.t = "epoch" THEN Ts(v.n, v.d)
    ELSE IF v.t = "num" THEN Ts((v.n \div v.d) \div MsPerDay, (v.n \div v.d) % MsPerDay)
    ELSE NaT

\* series / k and series * k on one value: a null stays null
DivBy(v, k) == IF v.t = "num" THEN RatDiv(v, k) ELSE NaN
MulBy(v, k) == IF v.t = "num" THEN RatMul(v, k) ELSE NaN

\* df["duration_minutes"].replace({0: pd.NA}) on one value
ZeroToNA(v) == IF v.t = "num" /\ v.n = 0 THEN NA ELSE v

\* the mutant: the zero duration is left in the denominator (x / 0.0 is inf)
Inf == Cell("inf", "", 0, 1)
calories_per_min_mut(cal, dur) ==
    IF cal.t = "num" /\ dur.t = "num"
    THEN (IF dur.n = 0 THEN Inf ELSE RatDiv(cal, dur))
    ELSE NaN

\* df["calories"] / df["duration_minutes"].replace({0: pd.NA}) on one row
calories_per_min(cal, dur) ==
    LET den == ZeroToNA(dur)
    IN IF cal.t = "num" /\ den.t = "num" THEN RatDiv(cal, den) ELSE NaN

\* if src in df: df[dst] = F(df[src])
Derive(t, src, dst, F(_)) ==
    IF HasCol(t, src) THEN SetCol(t, dst, LAMBDA r : F(r[src])) ELSE t

NoiseColumns ==
    {"summarizedExerciseSets", "summarizedDiveInfo", "uuidMsb", "uuidLsb", "rule"}

preferred_order ==
    <<"activityId", "name", "activityType", "sportType", "start_time_local",
      "start_time_gmt", "duration_minutes", "moving_minutes", "distance_km",
      "distance_mi", "avg_speed_mph", "avgHr", "maxHr", "steps", "calories",
      "calories_per_min", "trainingEffectLabel", "moderateIntensityMinutes",
      "vigorousIntensityMinutes", "totalSets", "totalReps">>

\* df[existing + remaining]
Reorder(t) ==
    LET existing == SelectSeq(preferred_order, LAMBDA c : HasCol(t, c))
        remaining == SelectSeq(t.cols, LAMBDA c : c \notin Range(existing))
    IN Table(existing \o remaining, t.index, t.rows)

build_clean_dataframe(recs) ==
    LET t0 == DropCols(DataFrame(recs), NoiseColumns)
        t1 == Derive(t0, "startTimeGmt", "start_time_gmt", ms_to_datetime)
        t2 == Derive(t1, "startTimeLocal", "start_time_local", ms_to_datetime)
        t3 == Derive(t2, "beginTimestamp", "begin_time", ms_to_datetime)
        t4 == Derive(t3, "duration", "duration_minutes",
                     LAMBDA v : DivBy(v, Num(60000, 1)))
        t5 == Derive(t4, "elapsedDuration", "elapsed_minutes",
                     LAMBDA v : DivBy(v, Num(60000, 1)))
        t6 == Derive(t5, "movingDuration", "moving_minutes",
                     LAMBDA v : DivBy(v, Num(60000, 1)))
        t7 == Derive(t6, "distance", "distance_km",
                     LAMBDA v : DivBy(v, Num(100000, 1)))
        t8 == IF HasCol(t7, "distance")
              THEN SetCol(t7, "distance_mi",
                          LAMBDA r : MulBy(r["distance_km"], Num(621371, 1000000)))
              ELSE t7
        t9 == Derive(t8, "avgSpeed", "avg_speed_mph",
                     LAMBDA v : MulBy(v, Num(223694, 100000)))
        t10 == IF HasCol(t9, "calories") /\ HasCol(t9, "duration_minutes")
               THEN SetCol(t9, "calories_per_min",
                           LAMBDA r : calories_per_min(r["calories"],
                                                       r["duration_minutes"]))
               ELSE t9
    IN Reorder(t10)

(***************************************************************************)
(* main.py tidy_dataframe.                                                 *)
(***************************************************************************)
NullCount(t, c) == Cardinality({i \in 1..NRows(t) : IsNull(t.rows[i][c])})

\* df.isna().mean()[c] > 0.9; the mean of no rows is NaN, which is not > 0.9
IsSparse(t, c) == NRows(t) > 0 /\ 10 * NullCount(t, c) > 9 * NRows(t)

\* df[c].nunique(dropna=False) raises TypeError on a dict or list value
Unhashable(t, c) == \E i \in 1..NRows(t) : t.rows[i][c].t = "nested"

\* df[c].nunique(dropna=False) == 1, a TypeError leaving the column alone
IsConstant(t, c) ==
    ~Unhashable(t, c) /\ Cardinality({t.rows[i][c] : i \in 1..NRows(t)}) = 1

boolean_like ==
    {"parent", "pr", "elevationCorrected", "decoDive", "purposeful",
     "autoCalcCalories", "favorite", "atpActivity"}

id_cols == {"activityId", "userProfileId", "deviceId", "eventTypeId", "timeZoneId"}

\* astype(bool) of one value: bool(x); NaN is truthy, None is not
AsBool(v) ==
    IF v.t = "bool" THEN v
    ELSE IF v.t = "None" THEN Bool(FALSE)
    ELSE IF v.t = "num" THEN Bool(v.n # 0)
    ELSE IF v.t = "str" THEN Bool(v.s # "")
    ELSE Bool(TRUE)

\* astype("Int64") of one value: a null is <NA> (ids are whole numbers)
AsInt64(v) == IF IsNull(v) THEN NA ELSE v

\* for col in names: if col in df.columns: df[col] = df[col].astype(...)
Coerce(t, names, F(_)) ==
    Table(t.cols, t.index,
          [i \in 1..NRows(t) |->
              [k \in ColSet(t) |->
                  IF k \in names THEN F(t.rows[i][k]) ELSE t.rows[i][k]]])

Coerced(t) == Coerce(Coerce(t, boolean_like, AsBool), id_cols, AsInt64)

sparse_cols(t) == {c \in ColSet(t) : IsSparse(t, c)}
constant_cols(t) == {c \in ColSet(t) : IsConstant(t, c)}

\* the mutant: sparse and constant columns detected after the coercions
tidy_dataframe_mut(t) ==
    DropCols(Coerced(t), sparse_cols(Coerced(t)) \cup constant_cols(Coerced(t)))

tidy_dataframe(t) == DropCols(Coerced(t), sparse_cols(t) \cup constant_cols(t))

(***************************************************************************)
(* The CSV between the two pipelines: DataFrame.to_csv(index=False) and    *)
(* pd.read_csv.  A field is empty, text, a number (f_ms: a count of        *)
(* milliseconds) or the text of a timestamp; reading infers each column's  *)
(* type from its fields.                                                   *)
(***************************************************************************)
Field(v) ==
    IF IsNull(v) THEN Cell("f_empty", "", 0, 1)
    ELSE IF v.t = "str" /\ v.s = "" THEN Cell("f_empty", "", 0, 1)
    ELSE IF v.t = "num" THEN Cell("f_num", "", v.n, v.d)
    ELSE IF v.t = "epoch" THEN Cell("f_ms", "", v.n, v.d)
    ELSE IF v.t = "ts" THEN Cell("f_time", "", v.n, v.d)
    ELSE Cell("f_text", v.s, 0, 1)

NoFile == [exists |-> FALSE, cols |-> <<>>, rows |-> <<>>]

to_csv(t) ==
    [exists |-> TRUE, cols |-> t.cols,
     rows |-> [i \in 1..NRows(t) |-> [c \in ColSet(t) |-> Field(t.rows[i][c])]]]

\* the type read_csv gives a column
InferredType(file, c) ==
    LET filled == {i \in 1..Len(file.rows) : file.rows[i][c].t # "f_empty"}
    IN IF filled = {} THEN "float"
       ELSE IF \A i \in filled : file.rows[i][c].t \in {"f_num", "f_ms"} THEN "float"
       ELSE IF \A i \in filled : file.rows[i][c].t = "f_text"
                                 /\ file.rows[i][c].s \in {"True", "False"}
            THEN "bool"
       ELSE "object"

Parse(f, type) ==
    IF f.t = "f_empty" THEN NaN
    ELSE IF type = "float"
    THEN Cell(IF f.t = "f_ms" THEN "epoch" ELSE "num", "", f.n, f.d)
    ELSE IF type = "bool" THEN Bool(f.s = "True")
    ELSE IF f.t = "f_time" THEN Cell("str", "datetime", f.n, f.d)
    ELSE IF f.t \in {"f_num", "f_ms"} THEN Cell("str", "number", f.n, f.d)
    ELSE Str(f.s)

read_csv(file) ==
    Table(file.cols,
          [i \in 1..Len(file.rows) |-> i - 1],
          [i \in 1..Len(file.rows) |->
              [c \in Range(file.cols) |-> Parse(file.rows[i][c], InferredType(file, c))]])

(***************************************************************************)
(* exploration.py: load_cleaned_data, apply_sport_groups,                  *)
(* drop_container_activities, filter_year.                                 *)
(***************************************************************************)
CLEAN_PATH == "data/summarized_activities_clean.csv"
FIG_DIR == "data/figures"

\* pd.to_datetime(errors="coerce") of one value read from the CSV
to_datetime(v) == IF v.t = "str" /\ v.s = "datetime" THEN Ts(v.n, v.d) ELSE NaT

TimeColumns == {"start_time_local", "start_time_gmt", "begin_time"}

\* a missing file and a file without a header line are errors of read_csv
load_cleaned_data(file) ==
    IF ~file.exists
    THEN [ret |-> Table(<<>>, <<>>, <<>>),
          err |-> Error("load_cleaned_data", "FileNotFoundError")]
    ELSE IF Len(file.cols) = 0
    THEN [ret |-> Table(<<>>, <<>>, <<>>),
          err |-> Error("load_cleaned_data", "EmptyDataError")]
    ELSE [ret |-> Coerce(read_csv(file), TimeColumns, to_datetime), err |-> NoError]

\* df["sportType"].replace({"TRAINING": "FITNESS_EQUIPMENT"})
SportGroup(v) == IF v = Str("TRAINING") THEN Str("FITNESS_EQUIPMENT") ELSE v

apply_sport_groups(t) == Derive(t, "sportType", "sport_group", SportGroup)

\* row i of the mask: sportType.eq("MULTISPORT") | parent.fillna(False)
IsContainer(t, i) ==
    \/ HasCol(t, "sportType") /\ t.rows[i]["sportType"] = Str("MULTISPORT")
    \/ HasCol(t, "parent") /\ t.rows[i]["parent"] = Bool(TRUE)

\* with neither column the mask is still the bool False: ~False is -1 and
\* df.loc[-1] looks up the row labelled -1
drop_container_activities(t) ==
    IF ~HasCol(t, "sportType") /\ ~HasCol(t, "parent")
    THEN IF -1 \in Range(t.index)
         THEN [ret |-> SelectRows(t, {i \in 1..NRows(t) : t.index[i] = -1}),
               err |-> NoError]
         ELSE [ret |-> t, err |-> Error("drop_container_activities", "KeyError")]
    ELSE [ret |-> SelectRows(t, {i \in 1..NRows(t) : ~IsContainer(t, i)}),
          err |-> NoError]

\* the civil year of a day number (days since 1970-01-01)
YearOf(day) ==
    LET z == day + 719468
        era == z \div 146097
        doe == z - era * 146097
        yoe == (doe - doe \div 1460 + doe \div 36524 - doe \div 146096) \div 365
        doy == doe - (365 * yoe + yoe \div 4 - yoe \div 100)
        mp == (5 * doy + 2) \div 153
        m == IF mp < 10 THEN mp + 3 ELSE mp - 9
    IN yoe + era * 400 + (IF m <= 2 THEN 1 ELSE 0)

filter_year(t, year) ==
    IF ~HasCol(t, "start_time_local") THEN t
    ELSE SelectRows(t, {i \in 1..NRows(t) :
             /\ t.rows[i]["start_time_local"].t = "ts"
             /\ YearOf(t.rows[i]["start_time_local"].n) = year})

(***************************************************************************)
(* exploration.py compute_stats.                                           *)
(***************************************************************************)
\* the non-null cells of a column, in row order
Values(t, c) ==
    LET pos == Positions(NRows(t), 1, {i \in 1..NRows(t) : ~IsNull(t.rows[i][c])})
    IN [j \in 1..Len(pos) |-> t.rows[pos[j]][c]]

RECURSIVE SumSeq(_)
SumSeq(vs) == IF vs = <<>> THEN Num(0, 1) ELSE RatAdd(vs[1], SumSeq(Tail(vs)))

\* the k-th smallest of a sequence of numbers (k from 1)
Kth(vs, k) ==
    CHOOSE v \in Range(vs) :
        /\ Cardinality({i \in 1..Len(vs) : RatLess(vs[i], v)}) < k
        /\ Cardinality({i \in 1..Len(vs) : ~RatLess(v, vs[i])}) >= k

\* Series.median(): NaN without values
Median(vs) ==
    LET m == Len(vs)
    IN IF m = 0 THEN NaN
       ELSE IF m % 2 = 1 THEN Kth(vs, (m + 1) \div 2)
       ELSE RatMul(RatAdd(Kth(vs, m \div 2), Kth(vs, m \div 2 + 1)), Num(1, 2))

\* Series.mean() and Series.max(): NaN without values
Mean(vs) == IF vs = <<>> THEN NaN ELSE RatMul(SumSeq(vs), Num(1, Len(vs)))
Max(vs) == IF vs = <<>> THEN NaN ELSE Kth(vs, Len(vs))

\* round(x, digits) with scale = 10^digits: to the nearest, a tie to even
Round(x, scale) ==
    IF x.t # "num" THEN NaN
    ELSE LET y == RatMul(x, Num(scale, 1))
             q == y.n \div y.d
             r == y.n - q * y.d
             up == 2 * r > y.d \/ (2 * r = y.d /\ q % 2 = 1)
         IN Num(IF up THEN q + 1 ELSE q, scale)

\* int(x): towards zero
Int_(x) == Num((IF x.n < 0 THEN -1 ELSE 1) * (Abs(x.n) \div x.d), 1)

\* Timestamp.date().isoformat(), the date yyyy-mm-dd
IsoDate(v) == Cell("date", "yyyy-mm-dd", v.n, 0)

TsLess(a, b) == a.n < b.n \/ (a.n = b.n /\ a.d < b.d)
MinTs(vs) == CHOOSE v \in Range(vs) : \A w \in Range(vs) : ~TsLess(w, v)
MaxTs(vs) == CHOOSE v \in Range(vs) : \A w \in Range(vs) : ~TsLess(v, w)

\* value_counts().head(k).to_dict(): the k most frequent values and their
\* counts, ties in order of first appearance
ValueCounts(vs, k) ==
    LET count(v) == Cardinality({i \in 1..Len(vs) : vs[i] = v})
        first(v) == CHOOSE i \in 1..Len(vs) : vs[i] = v /\ \A j \in 1..(i - 1) : vs[j] # v
        ahead(v) == {w \in Range(vs) :
                        count(w) > count(v) \/ (count(w) = count(v) /\ first(w) < first(v))}
        top == {v \in Range(vs) : Cardinality(ahead(v)) < k}
    IN [name \in {v.s : v \in top} |-> count(CHOOSE v \in top : v.s = name)]

\* stats[key] = value
Entry(key, value) == key :> value
NoEntry == [k \in {} |-> NaN]

\* the mutant: max_heart_rate is left out when maxHr is absent
HeartRateEntries_mut(t) ==
    IF ~HasCol(t, "avgHr") THEN NoEntry
    ELSE Entry("avg_heart_rate", Round(Mean(Values(t, "avgHr")), 10))
         @@ (IF HasCol(t, "maxHr")
             THEN Entry("max_heart_rate", Int_(Max(Values(t, "maxHr"))))
             ELSE NoEntry)

\* if "avgHr" in df: avg_heart_rate, and max_heart_rate or None
HeartRateEntries(t) ==
    IF ~HasCol(t, "avgHr") THEN NoEntry
    ELSE Entry("avg_heart_rate", Round(Mean(Values(t, "avgHr")), 10))
         @@ Entry("max_heart_rate",
                  IF HasCol(t, "maxHr") THEN Int_(Max(Values(t, "maxHr"))) ELSE None)

\* int(df["maxHr"].max()) of a NaN maximum raises ValueError
compute_stats(t) ==
    IF HasCol(t, "avgHr") /\ HasCol(t, "maxHr") /\ Values(t, "maxHr") = <<>>
    THEN [ret |-> NoEntry, err |-> Error("compute_stats", "ValueError")]
    ELSE
    [ret |->
        Entry("activity_count", Num(NRows(t), 1))
        @@ (IF HasCol(t, "start_time_local") /\ Values(t, "start_time_local") # <<>>
            THEN Entry("date_range",
                       <<IsoDate(MinTs(Values(t, "start_time_local"))),
                         IsoDate(MaxTs(Values(t, "start_time_local")))>>)
            ELSE NoEntry)
        @@ (IF HasCol(t, "distance_mi")
            THEN Entry("total_miles", Round(SumSeq(Values(t, "distance_mi")), 100))
                 @@ Entry("median_miles", Round(Median(Values(t, "distance_mi")), 100))
            ELSE NoEntry)
        @@ (IF HasCol(t, "duration_minutes")
            THEN Entry("total_hours",
                       Round(RatMul(SumSeq(Values(t, "duration_minutes")), Num(1, 60)),
                             100))
                 @@ Entry("median_duration_min",
                          Round(Median(Values(t, "duration_minutes")), 100))
            ELSE NoEntry)
        @@ (IF HasCol(t, "calories")
            THEN Entry("total_calories", Int_(SumSeq(Values(t, "calories"))))
            ELSE NoEntry)
        @@ HeartRateEntries(t)
        @@ (IF HasCol(t, "sport_group")
            THEN Entry("top_sports", ValueCounts(Values(t, "sport_group"), 5))
            ELSE NoEntry),
     err |-> NoError]

(***************************************************************************)
(* exploration.py: the six chart renderers.  What a renderer does with a   *)
(* table: whether its columns are there, whether the aggregate it plots is *)
(* empty, whether the code looks at that before plotting, and the files    *)
(* it saves.                                                               *)
(***************************************************************************)
Plan(present, empty, guarded, files) ==
    [present |-> present, empty |-> empty, guarded |-> guarded, files |-> files]

HasValues(t, c) == \E i \in 1..NRows(t) : ~IsNull(t.rows[i][c])

\* value_counts().head(10), plotted without a look at its size
plot_activity_counts(t) ==
    Plan(HasCol(t, "sport_group"),
         HasCol(t, "sport_group") /\ ~HasValues(t, "sport_group"),
         FALSE, <<"activity_counts.png">>)

\* daily: one sum per date of the rows that have a start time
plot_distance_over_time(t) ==
    Plan(HasCol(t, "start_time_local") /\ HasCol(t, "distance_mi"),
         HasCol(t, "start_time_local") /\ ~HasValues(t, "start_time_local"),
         TRUE, <<"distance_over_time.png">>)

\* df["avgHr"].dropna(), plotted without a look at its size
plot_heart_rate_hist(t) ==
    Plan(HasCol(t, "avgHr"),
         HasCol(t, "avgHr") /\ ~HasValues(t, "avgHr"),
         FALSE, <<"heart_rate_hist.png">>)

\* agg: one median per sport of the rows that have a sport and a duration
plot_duration_by_sport(t) ==
    Plan(HasCol(t, "duration_minutes") /\ HasCol(t, "sport_group"),
         HasCol(t, "duration_minutes") /\ HasCol(t, "sport_group")
           /\ ~\E i \in 1..NRows(t) : /\ ~IsNull(t.rows[i]["sport_group"])
                                      /\ ~IsNull(t.rows[i]["duration_minutes"]),
         TRUE, <<"median_duration_by_sport.png">>)

\* the columns named hrTimeInZone_<n>
ZoneColumns == {"hrTimeInZone_1", "hrTimeInZone_2"}

\* totals_min: one total per zone column, whatever the rows
plot_hr_zone_distribution(t) ==
    Plan(ColSet(t) \cap ZoneColumns # {}, FALSE, TRUE, <<"hr_zone_distribution.png">>)

\* temp: the rows that have a start time; one chart per measure present
plot_weekly_totals(t) ==
    LET empty == HasCol(t, "start_time_local") /\ ~HasValues(t, "start_time_local")
    IN Plan(HasCol(t, "start_time_local"), empty, TRUE,
            (IF HasCol(t, "distance_mi") /\ ~empty
             THEN <<"weekly_distance.png">> ELSE <<>>)
            \o (IF HasCol(t, "duration_minutes") /\ ~empty
                THEN <<"weekly_time.png">> ELSE <<>>))

(***************************************************************************)
(* main.py resolve_source_path and the paths of main().                    *)
(***************************************************************************)
DefaultSource == "data/summarized_activities.json"
EnvSource == "exports/from_env.json"
DotEnvSource == "exports/from_dotenv.json"

\* the environment variable first, then the .env entry, then the default
resolve_source_path(envVar, dotEnv) ==
    IF envVar # "" THEN envVar
    ELSE IF dotEnv # "" THEN dotEnv
    ELSE DefaultSource

\* Path("data/clean") / f"{source_path.stem}_clean.csv"
OutputPathFor(source) ==
    IF source = DefaultSource THEN "data/clean/summarized_activities_clean.csv"
    ELSE IF source = EnvSource THEN "data/clean/from_env_clean.csv"
    ELSE "data/clean/from_dotenv_clean.csv"

CsvPaths ==
    {CLEAN_PATH} \cup {OutputPathFor(p) : p \in {DefaultSource, EnvSource, DotEnvSource}}

\* the names exploration.py defines
ExplorationNames ==
    {"CLEAN_PATH", "FIG_DIR", "load_cleaned_data", "apply_sport_groups",
     "drop_container_activities", "filter_year", "compute_stats",
     "plot_activity_counts", "plot_distance_over_time", "plot_heart_rate_hist",
     "plot_duration_by_sport", "plot_hr_zone_distribution", "plot_weekly_totals",
     "main"}

AnalysisYear == 2025

(***************************************************************************)
(* The steps.  pc names the statement about to run; "failed" is an         *)
(* exception that left the entry point, err says which.                    *)
(***************************************************************************)
NoTable == Table(<<>>, <<>>, <<>>)
NoRaw == ScalarNode("none")

Fail(e) == pc' = "failed" /\ err' = e

\* main.main(): source_path = resolve_source_path(); output_path = ...
MainResolve ==
    /\ pc = "resolve"
    /\ \E envVar \in {"", EnvSource}, dotEnv \in {"", DotEnvSource}, exists \in BOOLEAN :
          LET path == resolve_source_path(envVar, dotEnv)
          IN IF exists
             THEN /\ sourcePath' = path
                  /\ outputPath' = OutputPathFor(path)
                  /\ pc' = "read"
                  /\ err' = err
             ELSE /\ Fail(Error("resolve_source_path", "FileNotFoundError"))
                  /\ UNCHANGED <<sourcePath, outputPath>>
    /\ UNCHANGED <<entry, raw, records, df, input, csv, stats, figs, attempted, reported>>

\* clean_summarized_activities: records = read_activity_records(source_path)
ReadActivityRecords ==
    /\ pc = "read"
    /\ LET r == read_activity_records(raw)
       IN IF r.err = NoError
          THEN records' = r.ret /\ pc' = "build" /\ err' = err
          ELSE Fail(r.err) /\ records' = records
    /\ UNCHANGED <<entry, sourcePath, outputPath, raw, df, input, csv, stats, figs,
                   attempted, reported>>

\* clean_df = build_clean_dataframe(records); the parsed JSON is gone with
\* the frame of read_activity_records
BuildCleanDataframe ==
    /\ pc = "build"
    /\ df' = build_clean_dataframe(records)
    /\ raw' = NoRaw
    /\ pc' = "tidy"
    /\ UNCHANGED <<entry, sourcePath, outputPath, records, input, csv, stats, figs,
                   attempted, err, reported>>

\* clean_df = tidy_dataframe(clean_df)
TidyDataframe ==
    /\ pc = "tidy"
    /\ input' = df
    /\ df' = tidy_dataframe(df)
    /\ pc' = "write"
    /\ UNCHANGED <<entry, sourcePath, outputPath, raw, records, csv, stats, figs,
                   attempted, err, reported>>

\* a caller tidying the table tidy_dataframe returned
TidyAgain ==
    /\ pc = "write"
    /\ input' = df
    /\ df' = tidy_dataframe(df)
    /\ pc' = "retidied"
    /\ UNCHANGED <<entry, sourcePath, outputPath, raw, records, csv, stats, figs,
                   attempted, err, reported>>

\* clean_df.to_csv(output_path, index=False); then main() goes on to its
\* import, a caller of clean_summarized_activities to exploration.main()
WriteCsv ==
    /\ pc = "write"
    /\ csv' = [csv EXCEPT ![outputPath] = to_csv(df)]
    /\ pc' = IF entry = "main" THEN "import" ELSE "load"
    /\ UNCHANGED <<entry, sourcePath, outputPath, raw, records, df, input, stats, figs,
                   attempted, err, reported>>

\* main.main(): from exploration import run_analysis
ImportRunAnalysis ==
    /\ pc = "import"
    /\ IF "run_analysis" \in ExplorationNames
       THEN pc' = "run_analysis" /\ err' = err
       ELSE Fail(Error("main", "ImportError"))
    /\ UNCHANGED <<entry, sourcePath, outputPath, raw, records, df, input, csv, stats,
                   figs, attempted, reported>>

\* exploration.main(): df = load_cleaned_data()
LoadCleanedData ==
    /\ pc = "load"
    /\ LET r == load_cleaned_data(csv[CLEAN_PATH])
       IN IF r.err = NoError
          THEN df' = r.ret /\ pc' = "filter_year" /\ err' = err
          ELSE Fail(r.err) /\ df' = df
    /\ UNCHANGED <<entry, sourcePath, outputPath, raw, records, input, csv, stats, figs,
                   attempted, reported>>

\* df = filter_year(df, 2025)
FilterYear ==
    /\ pc = "filter_year"
    /\ df' = filter_year(df, AnalysisYear)
    /\ pc' = "drop_container"
    /\ UNCHANGED <<entry, sourcePath, outputPath, raw, records, input, csv, stats, figs,
                   attempted, err, reported>>

\* df = drop_container_activities(df)
DropContainerActivities ==
    /\ pc = "drop_container"
    /\ LET r == drop_container_activities(df)
       IN IF r.err = NoError
          THEN df' = r.ret /\ pc' = "sport_groups" /\ err' = err
          ELSE Fail(r.err) /\ df' = df
    /\ UNCHANGED <<entry, sourcePath, outputPath, raw, records, input, csv, stats, figs,
                   attempted, reported>>

\* df = apply_sport_groups(df)
ApplySportGroups ==
    /\ pc = "sport_groups"
    /\ df' = apply_sport_groups(df)
    /\ pc' = "stats"
    /\ UNCHANGED <<entry, sourcePath, outputPath, raw, records, input, csv, stats, figs,
                   attempted, err, reported>>

\* stats = compute_stats(df); FIG_DIR.mkdir(parents=True, exist_ok=True)
ComputeStats ==
    /\ pc = "stats"
    /\ LET r == compute_stats(df)
       IN IF r.err = NoError
          THEN stats' = r.ret /\ pc' = "plot_activity_counts" /\ err' = err
          ELSE Fail(r.err) /\ stats' = stats
    /\ UNCHANGED <<entry, sourcePath, outputPath, raw, records, df, input, csv, figs,
                   attempted, reported>>

\* what one call of a renderer left behind
Attempt(name, plan, wrote, raised) ==
    [name |-> name, present |-> plan.present, empty |-> plan.empty,
     wrote |-> wrote, raised |-> raised]

Prefix(seq, k) == {seq[i] : i \in 1..k}

\* One renderer called on df.  It returns at once when its columns are
\* missing or the emptiness it checks holds.  Otherwise it plots and saves:
\* plt.savefig may fail on any file (OSError), and plotting an aggregate
\* that is empty either raises in the plotting library or saves the file.
Render(name, plan, next) ==
    /\ pc = name
    /\ IF ~plan.present \/ (plan.guarded /\ plan.empty)
       THEN /\ attempted' = Append(attempted, Attempt(name, plan, {}, FALSE))
            /\ pc' = next
            /\ UNCHANGED <<figs, err>>
       ELSE \E k \in 0..Len(plan.files),
               libraryRaises \in (IF plan.empty THEN BOOLEAN ELSE {FALSE}) :
               IF libraryRaises
               THEN /\ k = 0
                    /\ attempted' = Append(attempted, Attempt(name, plan, {}, TRUE))
                    /\ Fail(Error(name, "PlotError"))
                    /\ figs' = figs
               ELSE /\ attempted' = Append(attempted,
                          Attempt(name, plan, Prefix(plan.files, k), k < Len(plan.files)))
                    /\ figs' = figs \cup Prefix(plan.files, k)
                    /\ IF k < Len(plan.files)
                       THEN Fail(Error(name, "OSError"))
                       ELSE pc' = next /\ err' = err
    /\ UNCHANGED <<entry, sourcePath, outputPath, raw, records, df, input, csv, stats,
                   reported>>

PlotActivityCounts ==
    Render("plot_activity_counts", plot_activity_counts(df), "plot_distance_over_time")
PlotDistanceOverTime ==
    Render("plot_distance_over_time", plot_distance_over_time(df), "plot_heart_rate_hist")
PlotHeartRateHist ==
    Render("plot_heart_rate_hist", plot_heart_rate_hist(df), "plot_duration_by_sport")
PlotDurationBySport ==
    Render("plot_duration_by_sport", plot_duration_by_sport(df),
           "plot_hr_zone_distribution")
PlotHrZoneDistribution ==
    Render("plot_hr_zone_distribution", plot_hr_zone_distribution(df),
           "plot_weekly_totals")
PlotWeeklyTotals ==
    Render("plot_weekly_totals", plot_weekly_totals(df), "report")

\* print("Key stats:") ... print(f"\nCharts saved to {FIG_DIR}")
Report ==
    /\ pc = "report"
    /\ reported' = TRUE
    /\ pc' = "done"
    /\ UNCHANGED <<entry, sourcePath, outputPath, raw, records, df, input, csv, stats,
                   figs, attempted, err>>

(***************************************************************************)
(* Inputs.                                                                 *)
(***************************************************************************)
BoundedSeq(S, n) == UNION {[1..k -> S] : k \in 0..n}

\* a key the record does not have
Absent == Cell("absent", "", 0, 1)

Opt(key, v) == IF v = Absent THEN NoEntry ELSE key :> v

\* parsed contents for read_activity_records
SmallActivities == {ActivityNode("activityId" :> Num(id, 1)) : id \in 1..MaxItems}

Elements ==
    SmallActivities
    \cup {WrapperNode(w) : w \in BoundedSeq(SmallActivities, MaxItems)}
    \cup {ScalarNode(k) : k \in {"number", "string", "null", "bool"}}
    \cup {ListNode(<<>>)}


\* the i-th activity of an export: its id and its measures differ from row
\* to row, the sport, the parent flag and the start time are chosen
Metrics(i, kind) ==
    IF kind = "full"
    THEN ("duration" :> Num(600000 * i, 1)) @@ ("distance" :> Num(10000 * i, 1))
         @@ ("calories" :> Num(100 * i, 1)) @@ ("avgHr" :> Num(140 + i, 1))
         @@ ("maxHr" :> Num(170 + i, 1)) @@ ("hrTimeInZone_1" :> Num(60000 * i, 1))
    ELSE IF kind = "hr" THEN "avgHr" :> Num(140 + i, 1)
    ELSE NoEntry

StartTime(i, year) ==
    IF year = "2025" THEN EpochMs(20088 + i, 36000000)
    ELSE IF year = "2024" THEN EpochMs(20089 - i, 36000000)
    ELSE Absent

Activity(i, tpl, kind) ==
    ActivityNode(("activityId" :> Num(1000 + i, 1))
                 @@ Opt("sportType", tpl.sport)
                 @@ Opt("parent", tpl.parent)
                 @@ Opt("startTimeLocal", StartTime(i, tpl.year))
                 @@ Metrics(i, kind))

Templates ==
    [sport : {Absent, Str("MULTISPORT"), Str("RUNNING"), Str("TRAINING")},
     parent : {Absent, None, Bool(TRUE), Bool(FALSE)},
     year : {"none", "2024", "2025"}]

Export(tpls, kind) == [i \in 1..Len(tpls) |-> Activity(i, tpls[i], kind)]

\* the shapes of an export, and one content that is none of them
Shape(name, recs) ==
    IF name = "list" THEN ListNode(recs)
    ELSE IF name = "wrapped_list" THEN ListNode(<<WrapperNode(recs)>>)
    ELSE IF name = "wrapped" THEN WrapperNode(recs)
    ELSE ScalarNode("number")

InitRest ==
    /\ records = <<>>
    /\ df = NoTable
    /\ input = NoTable
    /\ csv = [p \in CsvPaths |-> NoFile]
    /\ stats = NoEntry
    /\ figs = {}
    /\ attempted = <<>>
    /\ err = NoError
    /\ reported = FALSE

\* main.main(), or clean_summarized_activities(source, CLEAN_PATH) followed
\* by exploration.main()
Init ==
    /\ entry \in {"main", "exploration"}
    /\ \E n \in 2..MaxRecords :
          \E tpls \in [1..n -> Templates], kind \in {"full", "hr", "none"},
             shape \in {"list", "wrapped_list", "wrapped", "number"} :
             raw = Shape(shape, Export(tpls, kind))
    /\ pc = IF entry = "main" THEN "resolve" ELSE "read"
    /\ sourcePath = IF entry = "main" THEN "" ELSE DefaultSource
    /\ outputPath = IF entry = "main" THEN "" ELSE CLEAN_PATH
    /\ InitRest

Next ==
    \/ MainResolve
    \/ ReadActivityRecords
    \/ BuildCleanDataframe
    \/ TidyDataframe
    \/ WriteCsv
    \/ ImportRunAnalysis
    \/ LoadCleanedData
    \/ FilterYear
    \/ DropContainerActivities
    \/ ApplySportGroups
    \/ ComputeStats
    \/ PlotActivityCounts
    \/ PlotDistanceOverTime
    \/ PlotHeartRateHist
    \/ PlotDurationBySport
    \/ PlotHrZoneDistribution
    \/ PlotWeeklyTotals
    \/ Report

Spec == Init /\ [][Next]_vars

\* read_activity_records on its own
InitExtract ==
    /\ entry = "read_activity_records"
    /\ \/ \E n \in 0..MaxItems : \E items \in [1..n -> Elements] : raw = ListNode(items)
       \/ \E e \in Elements : raw = e
    /\ pc = "read"
    /\ sourcePath = DefaultSource
    /\ outputPath = ""
    /\ InitRest

NextExtract == ReadActivityRecords

SpecExtract == InitExtract /\ [][NextExtract]_vars

\* build_clean_dataframe on its own: records with or without calories and
\* a duration, each a number, a null or left out
CaloriesOptions == {Absent, None, Num(0, 1), Num(100, 1), Num(250, 1)}
DurationOptions == {Absent, None, Num(0, 1), Num(60000, 1), Num(90000, 1)}

InitNormalize ==
    /\ entry = "build_clean_dataframe"
    /\ raw = NoRaw
    /\ pc = "build"
    /\ sourcePath = DefaultSource
    /\ outputPath = ""
    /\ \E n \in 1..MaxRecords :
          \E cal \in [1..n -> CaloriesOptions], dur \in [1..n -> DurationOptions] :
             records = [i \in 1..n |->
                           ActivityNode(("activityId" :> Num(1000 + i, 1))
                                        @@ Opt("calories", cal[i])
                                        @@ Opt("duration", dur[i]))]
    /\ df = NoTable
    /\ input = NoTable
    /\ csv = [p \in CsvPaths |-> NoFile]
    /\ stats = NoEntry
    /\ figs = {}
    /\ attempted = <<>>
    /\ err = NoError
    /\ reported = FALSE

NextNormalize == BuildCleanDataframe

SpecNormalize == InitNormalize /\ [][NextNormalize]_vars

\* tidy_dataframe on its own, applied to a wide table and then to its own
\* result.  A column is k nulls followed by values.
ParentCell(shape, i) ==
    IF i <= shape.k THEN shape.null
    ELSE IF shape.pat = "true" THEN Bool(TRUE)
    ELSE IF shape.pat = "false" THEN Bool(FALSE)
    ELSE Bool(i % 2 = 0)

SplitsCell(shape, i) ==
    IF i <= shape.k THEN NaN
    ELSE IF shape.pat = "nested" THEN Nested
    ELSE IF shape.pat = "text" THEN Str("a")
    ELSE Str(IF i % 2 = 0 THEN "a" ELSE "b")

TidyTable(n, id, hasParent, parent, hasSplits, splits) ==
    LET cols == (IF id = "none" THEN <<>> ELSE <<id>>)
                \o (IF hasParent THEN <<"parent">> ELSE <<>>)
                \o (IF hasSplits THEN <<"splits">> ELSE <<>>)
    IN Table(cols,
             [i \in 1..n |-> i - 1],
             [i \in 1..n |->
                 [c \in Range(cols) |->
                     IF c = "parent" THEN ParentCell(parent, i)
                     ELSE IF c = "splits" THEN SplitsCell(splits, i)
                     ELSE IF c = "activityId" THEN Num(1000 + i, 1)
                     ELSE Num(7, 1)]])

InitTidy ==
    /\ entry = "tidy_dataframe"
    /\ raw = NoRaw
    /\ pc = "tidy"
    /\ sourcePath = DefaultSource
    /\ outputPath = ""
    /\ records = <<>>
    /\ \E n \in 1..MaxRows :
          \E id \in {"none", "activityId", "userProfileId"},
             hasParent \in BOOLEAN, hasSplits \in BOOLEAN,
             parent \in [k : 0..n, null : {NaN, None}, pat : {"true", "false", "mixed"}],
             splits \in [k : 0..n, pat : {"text", "texts", "nested"}] :
             df = TidyTable(n, id, hasParent, parent, hasSplits, splits)
    /\ input = NoTable
    /\ csv = [p \in CsvPaths |-> NoFile]
    /\ stats = NoEntry
    /\ figs = {}
    /\ attempted = <<>>
    /\ err = NoError
    /\ reported = FALSE

NextTidy == TidyDataframe \/ TidyAgain

SpecTidy == InitTidy /\ [][NextTidy]_vars

\* compute_stats on its own: any subset of its source columns, each row
\* holding values or nulls
StatSources ==
    {"start_time_local", "distance_mi", "duration_minutes", "calories", "avgHr",
     "maxHr", "sport_group"}

StatCell(c, i, filled) ==
    IF c = "start_time_local" THEN (IF filled THEN Ts(20088 + i, 36000000) ELSE NaT)
    ELSE IF ~filled THEN NaN
    ELSE IF c = "distance_mi" THEN Num(621371 * i, 10000000)
    ELSE IF c = "duration_minutes" THEN Num(10 * i, 1)
    ELSE IF c = "calories" THEN Num(100 * i, 1)
    ELSE IF c = "avgHr" THEN Num(140 + i, 1)
    ELSE IF c = "maxHr" THEN Num(170 + i, 1)
    ELSE Str(IF i % 2 = 0 THEN "FITNESS_EQUIPMENT" ELSE "RUNNING")

InitStats ==
    /\ entry = "compute_stats"
    /\ raw = NoRaw
    /\ pc = "stats"
    /\ sourcePath = DefaultSource
    /\ outputPath = ""
    /\ records = <<>>
    /\ \E n \in 0..MaxStatRows :
          \E present \in SUBSET StatSources, filled \in [1..n -> BOOLEAN] :
             df = Table(SelectSeq(preferred_order \o <<"sport_group">>,
                                  LAMBDA c : c \in present),
                        [i \in 1..n |-> i - 1],
                        [i \in 1..n |-> [c \in present |-> StatCell(c, i, filled[i])]])
    /\ input = NoTable
    /\ csv = [p \in CsvPaths |-> NoFile]
    /\ stats = NoEntry
    /\ figs = {}
    /\ attempted = <<>>
    /\ err = NoError
    /\ reported = FALSE

NextStats == ComputeStats

SpecStats == InitStats /\ [][NextStats]_vars

(***************************************************************************)
(* The claims.                                                             *)
(***************************************************************************)
WrapsFirst(content) ==
    /\ content.kind = "list"
    /\ Len(content.items) > 0
    /\ content.items[1].kind = "dict"
    /\ content.items[1].hasKey

\* C1: read_activity_records returns the value under the wrapper key of the
\* first element of a sequence whose first element is a mapping holding the
\* key, any other sequence unchanged (the empty one too), the value under the
\* key of a mapping that holds it, and raises the unrecognized-format error,
\* returning no records, for everything else.
C1_RecordExtractor ==
    pc # "read" =>
        /\ WrapsFirst(raw) => pc = "build" /\ records = raw.items[1].wrapped
        /\ (raw.kind = "list" /\ ~WrapsFirst(raw)) => pc = "build" /\ records = raw.items
        /\ (raw.kind = "dict" /\ raw.hasKey) => pc = "build" /\ records = raw.wrapped
        /\ (raw.kind # "list" /\ ~(raw.kind = "dict" /\ raw.hasKey)) =>
              /\ pc = "failed"
              /\ err = Error("read_activity_records", "ValueError")
              /\ records = <<>>

C1_Witness ==
    /\ pc = "failed"
    /\ raw.kind = "dict"
    /\ ~raw.hasKey
    /\ DOMAIN raw.fields # {}

\* C3 as the spec states it: in every row build_clean_dataframe produces
\* from records with calories and a duration, calories_per_min is null
\* exactly when duration_minutes is null or zero, and is calories /
\* duration_minutes otherwise.
C3_Original ==
    (pc = "tidy" /\ HasCol(df, "calories") /\ HasCol(df, "duration")) =>
        /\ HasCol(df, "calories_per_min")
        /\ \A i \in 1..NRows(df) :
              LET cpm == df.rows[i]["calories_per_min"]
                  dm == df.rows[i]["duration_minutes"]
              IN /\ IsNull(cpm) <=> (IsNull(dm) \/ dm = Num(0, 1))
                 /\ ~IsNull(cpm) =>
                       cpm.t = "num" /\ RatMul(cpm, dm) = df.rows[i]["calories"]

\* C3 as amended: calories_per_min is null exactly when duration_minutes is
\* null or zero or calories is null, and otherwise it is the number that
\* times duration_minutes gives calories.
C3_CaloriesPerMin ==
    (pc = "tidy" /\ HasCol(df, "calories") /\ HasCol(df, "duration")) =>
        /\ HasCol(df, "calories_per_min")
        /\ \A i \in 1..NRows(df) :
              LET cpm == df.rows[i]["calories_per_min"]
                  dm == df.rows[i]["duration_minutes"]
                  cal == df.rows[i]["calories"]
              IN /\ IsNull(cpm) <=> (IsNull(dm) \/ dm = Num(0, 1) \/ IsNull(cal))
                 /\ ~IsNull(cpm) => cpm.t = "num" /\ RatMul(cpm, dm) = cal

C3_Witness ==
    /\ pc = "tidy"
    /\ HasCol(df, "calories_per_min")
    /\ \E i, j \in 1..NRows(df) :
          /\ df.rows[i]["duration_minutes"] = Num(0, 1)
          /\ df.rows[i]["calories"] = Num(100, 1)
          /\ IsNull(df.rows[i]["calories_per_min"])
          /\ df.rows[j]["duration_minutes"] = Num(3, 2)
          /\ df.rows[j]["calories_per_min"] = Num(500, 3)

\* C4: tidy_dataframe is idempotent: applied to its own result it returns
\* the same columns, the same types and the same cells.
C4_Idempotent == pc = "retidied" => df = input

\* the columns C5 names, read off the table before any coercion
C5_NullFractionOver90(t, c) ==
    10 * Cardinality({i \in 1..NRows(t) : IsNull(t.rows[i][c])}) > 9 * NRows(t)

C5_OneDistinctValue(t, c) ==
    /\ \A i \in 1..NRows(t) : t.rows[i][c].t # "nested"
    /\ Cardinality({t.rows[i][c] : i \in {j \in 1..NRows(t) : ~IsNull(t.rows[j][c])}})
       + (IF \E i \in 1..NRows(t) : IsNull(t.rows[i][c]) THEN 1 ELSE 0) = 1

\* C5: the columns tidy_dataframe returns are the input's columns without
\* those that, before any coercion, are more than 0.90 null or hold exactly
\* one distinct value (nulls counted as a value); a column of unhashable
\* values goes only if it is sparse; the boolean-like columns that stay have
\* been coerced.
C5_ColumnPruning ==
    pc = "write" =>
        /\ ColSet(df) = {c \in ColSet(input) :
                            ~C5_NullFractionOver90(input, c)
                            /\ ~C5_OneDistinctValue(input, c)}
        /\ \A c \in ColSet(df) \cap boolean_like :
              \A i \in 1..NRows(df) : df.rows[i][c].t = "bool"

C5_Witness ==
    /\ pc = "write"
    /\ \E c \in ColSet(input) \ ColSet(df) :
          C5_NullFractionOver90(input, c) /\ ~C5_OneDistinctValue(input, c)
    /\ \E c \in ColSet(df) :
          /\ ~C5_NullFractionOver90(input, c)
          /\ \E i \in 1..NRows(input) : IsNull(input.rows[i][c])
          /\ \A i, j \in 1..NRows(df) : df.rows[i][c] = df.rows[j][c]

\* the fields of the j-th record of the export
FieldOf(j, key) ==
    IF key \in DOMAIN records[j].fields THEN records[j].fields[key] ELSE Absent

\* the row read from the j-th record is among the rows of df
InTable(j) == \E i \in 1..NRows(df) : df.index[i] = j - 1

InYear(j) ==
    /\ FieldOf(j, "startTimeLocal").t = "epoch"
    /\ YearOf(FieldOf(j, "startTimeLocal").n) = AnalysisYear

\* C2: through the whole pipeline a record that is MULTISPORT or has
\* parent true is never among the rows compute_stats totals, and a record of
\* the analysis year whose parent flag is missing (absent or null) and whose
\* sportType is not MULTISPORT is kept by the container filter.
C2_ContainerFilter ==
    (entry = "exploration" /\ pc = "plot_activity_counts") =>
        \A j \in 1..Len(records) :
            /\ (FieldOf(j, "sportType") = Str("MULTISPORT")
                \/ FieldOf(j, "parent") = Bool(TRUE)) => ~InTable(j)
            /\ (FieldOf(j, "parent") \in {Absent, None}
                /\ FieldOf(j, "sportType") # Str("MULTISPORT")
                /\ InYear(j)) => InTable(j)

C6_Stages ==
    {"build_clean_dataframe", "tidy_dataframe", "filter_year",
     "drop_container_activities", "apply_sport_groups", "compute_stats",
     "plot_activity_counts", "plot_distance_over_time", "plot_heart_rate_hist",
     "plot_duration_by_sport", "plot_hr_zone_distribution", "plot_weekly_totals"}

\* C6: whatever optional columns a table lacks, none of the cleaning, filter,
\* stats and chart stages raises an error out of its computation (a file
\* that cannot be written is not the table's doing).
C6_NoErrorOnAbsentColumns ==
    ~(pc = "failed" /\ err.stage \in C6_Stages /\ err.exc # "OSError")

\* the column each entry of the bundle is computed from
C7_SourceOf ==
    [date_range |-> "start_time_local", total_miles |-> "distance_mi",
     median_miles |-> "distance_mi", total_hours |-> "duration_minutes",
     median_duration_min |-> "duration_minutes", total_calories |-> "calories",
     avg_heart_rate |-> "avgHr", max_heart_rate |-> "maxHr",
     top_sports |-> "sport_group"]

C8_BestEffortCharts ==
    \A i \in 1..Len(attempted) :
        /\ (~attempted[i].present \/ attempted[i].empty) =>
              attempted[i].wrote = {} /\ ~attempted[i].raised
        /\ attempted[i].wrote # {} => ~attempted[i].empty

\* C9: a renderer that fails does not end the run: the renderers after it
\* are still attempted and the console report is reached.
C9_FailureIsolated ==
    (pc \in {"failed", "done"} /\ \E i \in 1..Len(attempted) : attempted[i].raised) =>
        Len(attempted) = 6 /\ reported

\* C10: a run of main.main() that has written the cleaned CSV goes on to the
\* analysis of that file and to the final message: it does not end in an
\* error.
C10_MainRunsAnalysis ==
    (entry = "main" /\ pc = "failed") =>
        ~(outputPath \in DOMAIN csv /\ csv[outputPath].exists)

====
